---- MODULE Spec2Model ----
(***************************************************************************)
(* Crossword generator of src/puzzle-crossword.py (class CrosswordPuzzle). *)
(* src/puzzle.py holds the same algorithm over a single grid; the line     *)
(* numbers quoted below are those of src/puzzle-crossword.py.              *)
(*                                                                         *)
(* Cells are one-character strings: "#" blocked, " " playable blank (only  *)
(* in the player mask `grid`), anything else a letter.  A word is a        *)
(* sequence of one-character strings.  Python's 0-based x (column) and y   *)
(* (row) are kept; word[i] of the source is word[i + 1] here.              *)
(***************************************************************************)
EXTENDS Integers, Sequences, FiniteSets, TLC

VARIABLES width, height, grid, solution_grid, words, placed_words,
          pc, idx, trials, reports, probe,
          user_grid, selected_cell, selected_word, selected_direction,
          completion

vars == <<width, height, grid, solution_grid, words, placed_words,
          pc, idx, trials, reports, probe,
          user_grid, selected_cell, selected_word, selected_direction,
          completion>>

puzzle == <<width, height, grid, solution_grid, words, placed_words>>

\* the attributes of CrosswordGUI and the latest answer of check_completion
gui == <<user_grid, selected_cell, selected_word, selected_direction,
         completion>>

------------------------------------------------------------------------------
(* Bounds of the model and constants of the program *)

\* add_word calls made before generate_puzzle
MaxWords == 3

\* largest start coordinate handed to _can_place_word by a direct call
MaxStart == 3

\* the longest side of the grids on which the test of add_word is compared
\* with the orientations generate_puzzle finds
MaxSide == 4

\* the factor of the trial budget, range(self.width * self.height * 50)
TrialFactor == 50

\* grids of the general specification, <<width, height>>
Dims == {<<3, 3>>, <<3, 2>>, <<2, 1>>}

\* the words handed to add_word
InputWords == { <<"A", "B">>, <<"b", "a">>, <<"X", "Y">>,
                <<"A", "B", "A">>, <<"A", "B", "A", "B">>, <<>> }

Rows == 0 .. (height - 1)
Cols == 0 .. (width - 1)

NoProbe ==
    [called |-> FALSE, calls |-> 0, word |-> <<>>, start_x |-> 0, start_y |-> 0,
     direction |-> "none", result |-> FALSE]

\* Python's None, where a cell <<row, col>> is expected
None == <<>>

\* Python's None, where an entry of placed_words is expected: _place_word
\* numbers its entries from 1
NoWord ==
    [word |-> <<>>, clue |-> 0, start_x |-> 0, start_y |-> 0,
     direction |-> "none", number |-> 0]

\* no CrosswordGUI has been constructed
NoWindow ==
    /\ user_grid = <<>>
    /\ selected_cell = None
    /\ selected_word = NoWord
    /\ selected_direction = "none"
    /\ completion = [called |-> FALSE, result |-> FALSE]

------------------------------------------------------------------------------
(* str.upper() on the characters of the model *)

upper_char(c) ==
    CASE c = "a" -> "A"
      [] c = "b" -> "B"
      [] c = "x" -> "X"
      [] c = "y" -> "Y"
      [] OTHER -> c

upper(word) == [i \in 1 .. Len(word) |-> upper_char(word[i])]

------------------------------------------------------------------------------
(* __init__ *)

EmptyGrid(w, h) == [y \in 0 .. (h - 1) |-> [x \in 0 .. (w - 1) |-> "#"]]

Constructed(w, h) ==
    /\ width = w
    /\ height = h
    /\ grid = EmptyGrid(w, h)
    /\ solution_grid = EmptyGrid(w, h)
    /\ words = <<>>
    /\ placed_words = <<>>

------------------------------------------------------------------------------
(* _can_place_word, lines 47-152.  scan_* return the intersection count, *)
(* or -1 where the source returns False from inside the loop.             *)

\* line 80 / 118: 0 <= x < self.width and 0 <= y < self.height
cell_in_grid(x, y) == 0 <= x /\ x < width /\ 0 <= y /\ y < height

\* mutant of letter_conflict: the mismatch test is missing
letter_conflict_never(current_grid_char, ch) == FALSE

\* line 88 / 126: the letter already in the cell differs from word[i]
letter_conflict(current_grid_char, ch) == current_grid_char # ch

\* mutant of touches_above_or_below: the neighbour test is missing
touches_above_or_below_ignored(x, y) == FALSE

\* lines 95-99: the cell above or below an empty cell holds a letter
touches_above_or_below(x, y) ==
    \/ (y > 0 /\ solution_grid[y - 1][x] # "#")
    \/ (y < height - 1 /\ solution_grid[y + 1][x] # "#")

\* lines 133-137: the cell left or right of an empty cell holds a letter
touches_left_or_right(x, y) ==
    \/ (x > 0 /\ solution_grid[y][x - 1] # "#")
    \/ (x < width - 1 /\ solution_grid[y][x + 1] # "#")

RECURSIVE scan_horizontal(_, _, _, _, _)
scan_horizontal(word, start_x, start_y, i, intersection_count) ==
    IF i >= Len(word) THEN intersection_count
    ELSE LET x == start_x + i
             y == start_y
         IN  IF ~cell_in_grid(x, y) THEN -1
             ELSE IF solution_grid[y][x] # "#"
                  THEN IF letter_conflict(solution_grid[y][x], word[i + 1])
                       THEN -1
                       ELSE scan_horizontal(word, start_x, start_y, i + 1,
                                            intersection_count + 1)
                  ELSE IF touches_above_or_below(x, y)
                       THEN -1
                       ELSE scan_horizontal(word, start_x, start_y, i + 1,
                                            intersection_count)

RECURSIVE scan_vertical(_, _, _, _, _)
scan_vertical(word, start_x, start_y, i, intersection_count) ==
    IF i >= Len(word) THEN intersection_count
    ELSE LET x == start_x
             y == start_y + i
         IN  IF ~cell_in_grid(x, y) THEN -1
             ELSE IF solution_grid[y][x] # "#"
                  THEN IF letter_conflict(solution_grid[y][x], word[i + 1])
                       THEN -1
                       ELSE scan_vertical(word, start_x, start_y, i + 1,
                                          intersection_count + 1)
                  ELSE IF touches_left_or_right(x, y)
                       THEN -1
                       ELSE scan_vertical(word, start_x, start_y, i + 1,
                                          intersection_count)

\* lines 102-105: a letter right before the start or right after the end
horizontal_boundary_occupied(word, start_x, start_y) ==
    \/ (start_x > 0 /\ solution_grid[start_y][start_x - 1] # "#")
    \/ (start_x + Len(word) < width
          /\ solution_grid[start_y][start_x + Len(word)] # "#")

\* mutant of vertical_boundary_occupied: the cell after the end is not checked
vertical_boundary_start_only(word, start_x, start_y) ==
    start_y > 0 /\ solution_grid[start_y - 1][start_x] # "#"

\* lines 140-143
vertical_boundary_occupied(word, start_x, start_y) ==
    \/ (start_y > 0 /\ solution_grid[start_y - 1][start_x] # "#")
    \/ (start_y + Len(word) < height
          /\ solution_grid[start_y + Len(word)][start_x] # "#")

\* mutant of connectivity_rule: a later word needs no intersection either
connectivity_rule_dropped(intersection_count) == TRUE

\* lines 147-152: the first word needs no intersection, a later one does
connectivity_rule(intersection_count) ==
    IF placed_words = <<>> /\ intersection_count = 0 THEN TRUE
    ELSE IF placed_words # <<>> /\ intersection_count = 0 THEN FALSE
    ELSE TRUE

\* mutant of can_place_word: the end-of-word bounds are tested with >=
can_place_word_off_by_one(word, start_x, start_y, direction) ==
    IF start_x < 0 \/ start_y < 0 THEN FALSE
    ELSE IF direction = "horizontal"
    THEN IF start_x + Len(word) >= width THEN FALSE
         ELSE LET c == scan_horizontal(word, start_x, start_y, 0, 0)
              IN  IF c < 0 THEN FALSE
                  ELSE IF horizontal_boundary_occupied(word, start_x, start_y)
                       THEN FALSE
                       ELSE connectivity_rule(c)
    ELSE IF direction = "vertical"
    THEN IF start_y + Len(word) >= height THEN FALSE
         ELSE LET c == scan_vertical(word, start_x, start_y, 0, 0)
              IN  IF c < 0 THEN FALSE
                  ELSE IF vertical_boundary_occupied(word, start_x, start_y)
                       THEN FALSE
                       ELSE connectivity_rule(c)
    ELSE connectivity_rule(0)

can_place_word(word, start_x, start_y, direction) ==
    IF start_x < 0 \/ start_y < 0 THEN FALSE
    ELSE IF direction = "horizontal"
    THEN IF start_x + Len(word) > width THEN FALSE
         ELSE LET c == scan_horizontal(word, start_x, start_y, 0, 0)
              IN  IF c < 0 THEN FALSE
                  ELSE IF horizontal_boundary_occupied(word, start_x, start_y)
                       THEN FALSE
                       ELSE connectivity_rule(c)
    ELSE IF direction = "vertical"
    THEN IF start_y + Len(word) > height THEN FALSE
         ELSE LET c == scan_vertical(word, start_x, start_y, 0, 0)
              IN  IF c < 0 THEN FALSE
                  ELSE IF vertical_boundary_occupied(word, start_x, start_y)
                       THEN FALSE
                       ELSE connectivity_rule(c)
    ELSE connectivity_rule(0)

------------------------------------------------------------------------------
(* _place_word, lines 154-178 *)

\* the cells word_dict's word is written to
in_span(word, start_x, start_y, direction, x, y) ==
    \/ (direction = "horizontal" /\ y = start_y
          /\ start_x <= x /\ x < start_x + Len(word))
    \/ (direction = "vertical" /\ x = start_x
          /\ start_y <= y /\ y < start_y + Len(word))

\* the offset of cell (x, y) in the word, 0-based
span_offset(start_x, start_y, direction, x, y) ==
    IF direction = "horizontal" THEN x - start_x ELSE y - start_y

\* mutant of written_solution: range(word_length - 1), the last letter is
\* not written
written_solution_short(word, start_x, start_y, direction) ==
    [y \in Rows |-> [x \in Cols |->
        IF in_span(word, start_x, start_y, direction, x, y)
             /\ span_offset(start_x, start_y, direction, x, y) < Len(word) - 1
        THEN word[span_offset(start_x, start_y, direction, x, y) + 1]
        ELSE solution_grid[y][x]]]

\* lines 162-169, the writes to self.solution_grid
written_solution(word, start_x, start_y, direction) ==
    [y \in Rows |-> [x \in Cols |->
        IF in_span(word, start_x, start_y, direction, x, y)
        THEN word[span_offset(start_x, start_y, direction, x, y) + 1]
        ELSE solution_grid[y][x]]]

\* mutant of written_grid: the letter itself is written to the player's grid
written_grid_letters(word, start_x, start_y, direction) ==
    [y \in Rows |-> [x \in Cols |->
        IF in_span(word, start_x, start_y, direction, x, y)
        THEN word[span_offset(start_x, start_y, direction, x, y) + 1]
        ELSE grid[y][x]]]

\* lines 162-169, the writes to self.grid
written_grid(word, start_x, start_y, direction) ==
    [y \in Rows |-> [x \in Cols |->
        IF in_span(word, start_x, start_y, direction, x, y)
        THEN " "
        ELSE grid[y][x]]]

\* mutant of placed_entry: start_x and start_y recorded the wrong way round
placed_entry_swapped(word_dict, start_x, start_y, direction) ==
    [word |-> word_dict.word, clue |-> word_dict.clue,
     start_x |-> start_y, start_y |-> start_x,
     direction |-> direction, number |-> Len(placed_words) + 1]

\* mutant of placed_entry: 'number': len(self.placed_words), counted from 0
placed_entry_from_zero(word_dict, start_x, start_y, direction) ==
    [word |-> word_dict.word, clue |-> word_dict.clue,
     start_x |-> start_x, start_y |-> start_y,
     direction |-> direction, number |-> Len(placed_words)]

\* lines 171-178, the appended dictionary
placed_entry(word_dict, start_x, start_y, direction) ==
    [word |-> word_dict.word, clue |-> word_dict.clue,
     start_x |-> start_x, start_y |-> start_y,
     direction |-> direction, number |-> Len(placed_words) + 1]

\* mutant of place_word: insert(0, ...) in place of append(...)
place_word_at_front(word_dict, start_x, start_y, direction) ==
    /\ solution_grid' = written_solution(word_dict.word, start_x, start_y, direction)
    /\ grid' = written_grid(word_dict.word, start_x, start_y, direction)
    /\ placed_words' = <<placed_entry(word_dict, start_x, start_y, direction)>>
                          \o placed_words

\* lines 154-178
place_word(word_dict, start_x, start_y, direction) ==
    /\ solution_grid' = written_solution(word_dict.word, start_x, start_y, direction)
    /\ grid' = written_grid(word_dict.word, start_x, start_y, direction)
    /\ placed_words' = Append(placed_words,
                              placed_entry(word_dict, start_x, start_y, direction))

------------------------------------------------------------------------------
(* add_word, lines 34-45.  A report is a line the program prints. *)

\* mutant of fits_some_side: the test of line 41 is missing
fits_some_side_unchecked(word_upper, w, h) == TRUE

\* line 41, the test of add_word on a grid of w columns and h rows
fits_some_side(word_upper, w, h) == Len(word_upper) <= w \/ Len(word_upper) <= h

\* mutant of add_word: "and" in place of "or", the word must fit both ways
add_word_both_sides(word, clue) ==
    LET word_upper == upper(word)
    IN  IF Len(word_upper) <= width /\ Len(word_upper) <= height
        THEN /\ words' = Append(words, [word |-> word_upper, clue |-> clue])
             /\ reports' = reports
        ELSE /\ words' = words
             /\ reports' = Append(reports, [kind |-> "too_long", word |-> word])

add_word(word, clue) ==
    LET word_upper == upper(word)
    IN  IF fits_some_side(word_upper, width, height)
        THEN /\ words' = Append(words, [word |-> word_upper, clue |-> clue])
             /\ reports' = reports
        ELSE /\ words' = words
             /\ reports' = Append(reports, [kind |-> "too_long", word |-> word])

AddWord ==
    /\ pc = "setup"
    /\ Len(words) + Len(reports) < MaxWords
    /\ \E word \in InputWords :
          add_word(word, Len(words) + Len(reports) + 1)
    /\ UNCHANGED <<width, height, grid, solution_grid, placed_words,
                   pc, idx, trials, probe, gui>>

------------------------------------------------------------------------------
(* generate_puzzle, lines 180-278 *)

\* mutant of insert_by_length: words of equal length come out in reverse order
RECURSIVE insert_by_length_unstable(_, _)
insert_by_length_unstable(sorted, word_dict) ==
    IF sorted = <<>> THEN <<word_dict>>
    ELSE IF Len(Head(sorted).word) > Len(word_dict.word)
         THEN <<Head(sorted)>> \o insert_by_length_unstable(Tail(sorted), word_dict)
         ELSE <<word_dict>> \o sorted

\* list.sort(key=len, reverse=True): stable, longest first
RECURSIVE insert_by_length(_, _)
insert_by_length(sorted, word_dict) ==
    IF sorted = <<>> THEN <<word_dict>>
    ELSE IF Len(Head(sorted).word) >= Len(word_dict.word)
         THEN <<Head(sorted)>> \o insert_by_length(Tail(sorted), word_dict)
         ELSE <<word_dict>> \o sorted

RECURSIVE sort_by_length(_, _)
sort_by_length(sorted, rest) ==
    IF rest = <<>> THEN sorted
    ELSE sort_by_length(insert_by_length(sorted, Head(rest)), Tail(rest))

\* mutant of possible_directions: 'vertical' is never appended
possible_directions_horizontal_only(word) ==
    IF Len(word) <= width THEN <<"horizontal">> ELSE <<>>

\* lines 192-196, on a grid of w columns and h rows
directions_on(word, w, h) ==
    (IF Len(word) <= w THEN <<"horizontal">> ELSE <<>>)
      \o (IF Len(word) <= h THEN <<"vertical">> ELSE <<>>)

\* lines 192-196
possible_directions(word) == directions_on(word, width, height)

directions_of(word) ==
    {possible_directions(word)[k] : k \in 1 .. Len(possible_directions(word))}

\* mutant of trial_budget: range(n + 1), one trial too many
trial_budget_plus_one == width * height * TrialFactor + 1

\* self.width * self.height * 50
trial_budget == width * height * TrialFactor

\* lines 205-216: what one trial can draw, <<direction, start_x, start_y>>
random_draws(word) ==
    {<<"horizontal", sx, sy>> :
        sx \in 0 .. (width - Len(word)), sy \in 0 .. (height - 1)}
      \cup {<<"vertical", sx, sy>> :
        sx \in 0 .. (width - 1), sy \in 0 .. (height - Len(word))}

trial_draws(word) == {t \in random_draws(word) : t[1] \in directions_of(word)}

\* a trial that places nothing: max_x < 0 / max_y < 0 (continue), or a draw
\* that _can_place_word rejects
trial_can_fail(word) ==
    \/ ("horizontal" \in directions_of(word) /\ width - Len(word) < 0)
    \/ ("vertical" \in directions_of(word) /\ height - Len(word) < 0)
    \/ \E t \in trial_draws(word) : ~can_place_word(word, t[2], t[3], t[1])

\* lines 204-221 and 258-275: every way the loop of trials can end.  A trial
\* changes nothing unless it places the word, so the loop ends with the word
\* placed by trial number n (the n - 1 before it failed), or with all
\* trial_budget trials failed.
random_loop_outcomes(word) ==
    {[placed |-> TRUE, trials |-> n,
      direction |-> t[1], start_x |-> t[2], start_y |-> t[3]] :
        t \in {d \in trial_draws(word) : can_place_word(word, d[2], d[3], d[1])},
        n \in IF trial_can_fail(word) THEN 1 .. trial_budget ELSE {1}}
      \cup
    (IF trial_can_fail(word) \/ trial_budget = 0
     THEN {[placed |-> FALSE, trials |-> trial_budget,
            direction |-> "none", start_x |-> 0, start_y |-> 0]}
     ELSE {})

\* mutant of placements_with: a crossing is appended without the call of
\* _can_place_word of lines 235 and 243
RECURSIVE placements_with_unvalidated(_, _, _, _)
placements_with_unvalidated(word, p_word, char_idx_new, char_idx_old) ==
    IF char_idx_new >= Len(word) THEN <<>>
    ELSE IF char_idx_old >= Len(p_word.word)
         THEN placements_with_unvalidated(word, p_word, char_idx_new + 1, 0)
         ELSE LET rest == placements_with_unvalidated(word, p_word, char_idx_new,
                                                      char_idx_old + 1)
                  vx == p_word.start_x + char_idx_old
                  vy == p_word.start_y - char_idx_new
                  hx == p_word.start_x - char_idx_new
                  hy == p_word.start_y + char_idx_old
              IN  IF word[char_idx_new + 1] # p_word.word[char_idx_old + 1]
                  THEN rest
                  ELSE IF p_word.direction = "horizontal"
                            /\ "vertical" \in directions_of(word)
                  THEN IF vx >= 0 /\ vy >= 0
                       THEN <<[direction |-> "vertical",
                               start_x |-> vx, start_y |-> vy]>> \o rest
                       ELSE rest
                  ELSE IF p_word.direction = "vertical"
                            /\ "horizontal" \in directions_of(word)
                  THEN IF hx >= 0 /\ hy >= 0
                       THEN <<[direction |-> "horizontal",
                               start_x |-> hx, start_y |-> hy]>> \o rest
                       ELSE rest
                  ELSE rest

\* lines 225-246: the candidates of one placed word, in enumeration order
RECURSIVE placements_with(_, _, _, _)
placements_with(word, p_word, char_idx_new, char_idx_old) ==
    IF char_idx_new >= Len(word) THEN <<>>
    ELSE IF char_idx_old >= Len(p_word.word)
         THEN placements_with(word, p_word, char_idx_new + 1, 0)
         ELSE LET rest == placements_with(word, p_word, char_idx_new,
                                          char_idx_old + 1)
                  vx == p_word.start_x + char_idx_old
                  vy == p_word.start_y - char_idx_new
                  hx == p_word.start_x - char_idx_new
                  hy == p_word.start_y + char_idx_old
              IN  IF word[char_idx_new + 1] # p_word.word[char_idx_old + 1]
                  THEN rest
                  ELSE IF p_word.direction = "horizontal"
                            /\ "vertical" \in directions_of(word)
                  THEN IF vx >= 0 /\ vy >= 0
                            /\ can_place_word(word, vx, vy, "vertical")
                       THEN <<[direction |-> "vertical",
                               start_x |-> vx, start_y |-> vy]>> \o rest
                       ELSE rest
                  ELSE IF p_word.direction = "vertical"
                            /\ "horizontal" \in directions_of(word)
                  THEN IF hx >= 0 /\ hy >= 0
                            /\ can_place_word(word, hx, hy, "horizontal")
                       THEN <<[direction |-> "horizontal",
                               start_x |-> hx, start_y |-> hy]>> \o rest
                       ELSE rest
                  ELSE rest

RECURSIVE possible_placements_from(_, _)
possible_placements_from(word, k) ==
    IF k > Len(placed_words) THEN <<>>
    ELSE placements_with(word, placed_words[k], 0, 0)
           \o possible_placements_from(word, k + 1)

possible_placements(word) == possible_placements_from(word, 1)

\* mutant of end_iteration: the loop over the words ends at the first word
\* that could not be placed
end_iteration_stops(word, placed) ==
    /\ reports' = IF placed THEN reports
                  ELSE Append(reports, [kind |-> "could_not_place", word |-> word])
    /\ idx' = idx + 1
    /\ pc' = IF idx + 1 > Len(words) \/ ~placed THEN "done" ELSE "head"

\* lines 277-278 and the step of the for loop
end_iteration(word, placed) ==
    /\ reports' = IF placed THEN reports
                  ELSE Append(reports, [kind |-> "could_not_place", word |-> word])
    /\ idx' = idx + 1
    /\ pc' = IF idx + 1 > Len(words) THEN "done" ELSE "head"

\* lines 184-185
GenerateStart ==
    /\ pc = "setup"
    /\ words' = sort_by_length(<<>>, words)
    /\ idx' = 1
    /\ pc' = IF words = <<>> THEN "done" ELSE "head"
    /\ UNCHANGED <<width, height, grid, solution_grid, placed_words,
                   trials, reports, probe, gui>>

\* lines 187-203: the head of one iteration; trials counts the random trials
\* made for the word of the current iteration
LoopHead ==
    /\ pc = "head"
    /\ LET word == words[idx].word
       IN  IF possible_directions(word) = <<>>
           THEN /\ reports' = Append(reports, [kind |-> "skipping", word |-> word])
                /\ idx' = idx + 1
                /\ pc' = IF idx + 1 > Len(words) THEN "done" ELSE "head"
           ELSE /\ pc' = IF placed_words = <<>> THEN "first" ELSE "intersect"
                /\ UNCHANGED <<idx, reports>>
    /\ trials' = 0
    /\ UNCHANGED <<width, height, grid, solution_grid, words, placed_words,
                   probe, gui>>

\* one whole loop of random trials and what follows it
random_loop(word_dict) ==
    \E o \in random_loop_outcomes(word_dict.word) :
        /\ trials' = o.trials
        /\ IF o.placed
           THEN place_word(word_dict, o.start_x, o.start_y, o.direction)
           ELSE UNCHANGED <<grid, solution_grid, placed_words>>
        /\ end_iteration(word_dict.word, o.placed)

\* lines 203-221
FirstWordLoop ==
    /\ pc = "first"
    /\ random_loop(words[idx])
    /\ UNCHANGED <<width, height, words, probe, gui>>

\* lines 222-254: shuffle puts any candidate first; the loop commits the first
\* candidate in shuffled order that passes _can_place_word again
IntersectionStage ==
    /\ pc = "intersect"
    /\ LET word_dict == words[idx]
           candidates == possible_placements(word_dict.word)
           passing == {k \in 1 .. Len(candidates) :
                          can_place_word(word_dict.word, candidates[k].start_x,
                                         candidates[k].start_y,
                                         candidates[k].direction)}
       IN  IF passing # {}
           THEN \E k \in passing :
                   /\ place_word(word_dict, candidates[k].start_x,
                                 candidates[k].start_y, candidates[k].direction)
                   /\ end_iteration(word_dict.word, TRUE)
           ELSE /\ pc' = "fallback"
                /\ UNCHANGED <<grid, solution_grid, placed_words, idx, reports>>
    /\ UNCHANGED <<width, height, words, trials, probe, gui>>

\* lines 256-275
FallbackLoop ==
    /\ pc = "fallback"
    /\ random_loop(words[idx])
    /\ UNCHANGED <<width, height, words, probe, gui>>

------------------------------------------------------------------------------
(* CrosswordGUI.get_word_at_cell, lines 350-367, a query on the puzzle *)

\* mutant of passes_through: <= in place of < at the far end of the word
passes_through_one_more(word_info, row, col) ==
    LET start_x == word_info.start_x
        start_y == word_info.start_y
        word_len == Len(word_info.word)
        direction == word_info.direction
    IN  IF direction = "horizontal"
        THEN row = start_y /\ start_x <= col /\ col <= start_x + word_len
        ELSE IF direction = "vertical"
             THEN col = start_x /\ start_y <= row /\ row <= start_y + word_len
             ELSE FALSE

\* lines 355-365, the test made for one entry of placed_words
passes_through(word_info, row, col) ==
    LET start_x == word_info.start_x
        start_y == word_info.start_y
        word_len == Len(word_info.word)
        direction == word_info.direction
    IN  IF direction = "horizontal"
        THEN row = start_y /\ start_x <= col /\ col < start_x + word_len
        ELSE IF direction = "vertical"
             THEN col = start_x /\ start_y <= row /\ row < start_y + word_len
             ELSE FALSE

\* lines 354-367, the loop over placed_words from its k-th entry on
RECURSIVE words_at_cell_from(_, _, _)
words_at_cell_from(row, col, k) ==
    IF k > Len(placed_words) THEN <<>>
    ELSE (IF passes_through(placed_words[k], row, col)
          THEN <<placed_words[k]>> ELSE <<>>)
           \o words_at_cell_from(row, col, k + 1)

get_word_at_cell(row, col) == words_at_cell_from(row, col, 1)

\* mutant of get_next_cell_in_word: <= in place of < at the end of the word
get_next_cell_in_word_one_more(current_row, current_col, word_info) ==
    LET start_x == word_info.start_x
        start_y == word_info.start_y
        direction == word_info.direction
        word_len == Len(word_info.word)
    IN  IF direction = "horizontal"
        THEN IF current_col + 1 <= start_x + word_len
             THEN <<current_row, current_col + 1>> ELSE None
        ELSE IF direction = "vertical"
             THEN IF current_row + 1 <= start_y + word_len
                  THEN <<current_row + 1, current_col>> ELSE None
             ELSE None

\* lines 369-384; a function that ends without return gives None
get_next_cell_in_word(current_row, current_col, word_info) ==
    LET start_x == word_info.start_x
        start_y == word_info.start_y
        direction == word_info.direction
        word_len == Len(word_info.word)
    IN  IF direction = "horizontal"
        THEN IF current_col + 1 < start_x + word_len
             THEN <<current_row, current_col + 1>> ELSE None
        ELSE IF direction = "vertical"
             THEN IF current_row + 1 < start_y + word_len
                  THEN <<current_row + 1, current_col>> ELSE None
             ELSE None

\* lines 423-439
get_previous_cell_in_word(current_row, current_col, word_info) ==
    LET start_x == word_info.start_x
        start_y == word_info.start_y
        direction == word_info.direction
    IN  IF direction = "horizontal"
        THEN IF current_col - 1 >= start_x
             THEN <<current_row, current_col - 1>> ELSE None
        ELSE IF direction = "vertical"
             THEN IF current_row - 1 >= start_y
                  THEN <<current_row - 1, current_col>> ELSE None
             ELSE None

------------------------------------------------------------------------------
(* The general specification: any grid of Dims, up to MaxWords calls of *)
(* add_word, then one run of generate_puzzle.                            *)

Init ==
    /\ \E d \in Dims : Constructed(d[1], d[2])
    /\ pc = "setup"
    /\ idx = 0
    /\ trials = 0
    /\ reports = <<>>
    /\ probe = NoProbe
    /\ NoWindow

Next ==
    \/ AddWord
    \/ GenerateStart
    \/ LoopHead
    \/ FirstWordLoop
    \/ IntersectionStage
    \/ FallbackLoop

Spec == Init /\ [][Next]_vars

------------------------------------------------------------------------------
(* Vocabulary of the properties *)

\* the cell of placed word p at 0-based offset i, <<x, y>>
cell_of(p, i) ==
    IF p.direction = "horizontal" THEN <<p.start_x + i, p.start_y>>
    ELSE <<p.start_x, p.start_y + i>>

span_of(p) == {cell_of(p, i) : i \in 0 .. (Len(p.word) - 1)}

placed_indices == 1 .. Len(placed_words)

letter_cells == {c \in Cols \X Rows : solution_grid[c[2]][c[1]] # "#"}

neighbours(c) ==
    {<<c[1] + 1, c[2]>>, <<c[1] - 1, c[2]>>, <<c[1], c[2] + 1>>, <<c[1], c[2] - 1>>}

RECURSIVE flood(_, _)
flood(seen, frontier) ==
    IF frontier = {} THEN seen
    ELSE LET new == ((UNION {neighbours(c) : c \in frontier})
                        \cap letter_cells) \ seen
         IN  flood(seen \cup new, new)

\* the next word has no letter in common with any placed word
unrelated(word) ==
    /\ placed_words # <<>>
    /\ \A k \in placed_indices : \A i \in 1 .. Len(word) :
          \A j \in 1 .. Len(placed_words[k].word) :
              word[i] # placed_words[k].word[j]

------------------------------------------------------------------------------
(* Properties of the general specification *)

\* C1: every placed word reads in the solution grid exactly as its text, so
\* words covering one cell agree on its character.
C1_Consistency ==
    \A k \in placed_indices :
        \A i \in 0 .. (Len(placed_words[k].word) - 1) :
            LET c == cell_of(placed_words[k], i)
            IN  /\ cell_in_grid(c[1], c[2])
                /\ solution_grid[c[2]][c[1]] = placed_words[k].word[i + 1]

\* C1 witness: two placed words cover one cell.
C1_Witness ==
    \E j, k \in placed_indices :
        /\ j < k
        /\ span_of(placed_words[j]) \cap span_of(placed_words[k]) # {}

\* C2: every placed non-empty word starts at non-negative coordinates and its
\* whole span lies inside the grid.
C2_Containment ==
    \A k \in placed_indices :
        LET p == placed_words[k]
        IN  Len(p.word) > 0 =>
              /\ p.start_x >= 0
              /\ p.start_y >= 0
              /\ IF p.direction = "horizontal"
                 THEN p.start_x + Len(p.word) <= width /\ p.start_y < height
                 ELSE p.start_y + Len(p.word) <= height /\ p.start_x < width

\* C2 witness: a horizontal word ends in the last column of the last row and a
\* vertical word ends in the last row.
C2_Witness ==
    /\ \E k \in placed_indices :
          /\ placed_words[k].direction = "horizontal"
          /\ Len(placed_words[k].word) > 0
          /\ placed_words[k].start_x + Len(placed_words[k].word) = width
          /\ placed_words[k].start_y = height - 1
    /\ \E k \in placed_indices :
          /\ placed_words[k].direction = "vertical"
          /\ Len(placed_words[k].word) > 0
          /\ placed_words[k].start_y + Len(placed_words[k].word) = height

\* C3: a solution cell holds a letter exactly when some placed word covers it.
C3_Coverage ==
    \A y \in Rows : \A x \in Cols :
        (solution_grid[y][x] # "#")
          <=> (\E k \in placed_indices : <<x, y>> \in span_of(placed_words[k]))

\* C3 witness: two words are placed, and both letters and blocked cells exist.
C3_Witness ==
    /\ Len(placed_words) >= 2
    /\ letter_cells # {}
    /\ letter_cells # Cols \X Rows

\* C4: after generation every placed word but the first shares a cell with a
\* word placed before it.
C4_ConnectivityRule ==
    pc = "done" =>
        \A k \in placed_indices :
            k > 1 => \E j \in 1 .. (k - 1) :
                span_of(placed_words[j]) \cap span_of(placed_words[k]) # {}

\* C4 witness: generation ended with three words placed.
C4_Witness == pc = "done" /\ Len(placed_words) >= 3

\* C5: the letter cells of the solution grid form one 4-connected component.
C5_SingleComponent ==
    \/ letter_cells = {}
    \/ LET c0 == CHOOSE c \in letter_cells : TRUE
       IN  flood({c0}, {c0}) = letter_cells

\* C5 witness: three words are placed on letter cells that do not fill a line.
C5_Witness ==
    /\ Len(placed_words) >= 3
    /\ \E c, d \in letter_cells : c[1] # d[1] /\ c[2] # d[2]

\* C6: two orthogonally adjacent letter cells always lie in one common placed
\* word.
C6_NoIllegalAdjacency ==
    \A c \in letter_cells : \A d \in neighbours(c) \cap letter_cells :
        \E k \in placed_indices :
            c \in span_of(placed_words[k]) /\ d \in span_of(placed_words[k])

\* C6 witness: two words of the same orientation lie in adjacent lines.
C6_Witness ==
    \E j, k \in placed_indices :
        /\ j # k
        /\ placed_words[j].direction = placed_words[k].direction
        /\ Len(placed_words[j].word) > 0
        /\ Len(placed_words[k].word) > 0
        /\ \/ (placed_words[j].direction = "horizontal"
                 /\ placed_words[j].start_y + 1 = placed_words[k].start_y)
           \/ (placed_words[j].direction = "vertical"
                 /\ placed_words[j].start_x + 1 = placed_words[k].start_x)

\* C8: a word that has no letter in common with the placed words fails the
\* intersection stage, fails every fallback trial and is reported unplaced.
C8_UnrelatedNeverPlaced ==
    [][ (pc \in {"intersect", "fallback"} /\ unrelated(words[idx].word)) =>
          /\ placed_words' = placed_words
          /\ solution_grid' = solution_grid
          /\ grid' = grid
          /\ (pc = "intersect" => pc' = "fallback")
          /\ (pc = "fallback" =>
                /\ trials' = trial_budget
                /\ reports' = Append(reports, [kind |-> "could_not_place",
                                               word |-> words[idx].word])) ]_vars

\* C8 witness: 3x3 grid, "AB" then "XY": generation ended with only "AB"
\* placed and "XY" reported.
C8_Witness ==
    /\ width = 3 /\ height = 3 /\ pc = "done"
    /\ Len(words) = 2
    /\ words[1].word = <<"A", "B">> /\ words[2].word = <<"X", "Y">>
    /\ Len(placed_words) = 1 /\ placed_words[1].word = <<"A", "B">>
    /\ reports = <<[kind |-> "could_not_place", word |-> <<"X", "Y">>]>>

\* the longer side of the grid, max(self.width, self.height)
max_side == IF width >= height THEN width ELSE height

\* what upper-casing gives for the characters of InputWords
uppercase_of ==
    [c \in {"a", "b", "A", "B", "X", "Y"} |->
        IF c = "a" THEN "A" ELSE IF c = "b" THEN "B" ELSE c]

\* text is word upper-cased
is_upper_cased(text, word) ==
    /\ Len(text) = Len(word)
    /\ \A i \in 1 .. Len(word) : text[i] = uppercase_of[word[i]]

\* C12: add_word appends the upper-cased word exactly when it is no longer
\* than max(width, height); otherwise words is unchanged and the word is
\* reported, and it never appears in placed_words afterwards.
C12_InputRejection ==
    /\ [][ (pc = "setup" /\ pc' = "setup") =>
             \E word \in InputWords :
                IF Len(word) <= max_side
                THEN /\ Len(words') = Len(words) + 1
                     /\ SubSeq(words', 1, Len(words)) = words
                     /\ is_upper_cased(words'[Len(words')].word, word)
                     /\ reports' = reports
                ELSE /\ words' = words
                     /\ reports' = Append(reports, [kind |-> "too_long",
                                                    word |-> word]) ]_vars
    /\ [](\A i \in 1 .. Len(reports) :
            reports[i].kind = "too_long" =>
                /\ Len(reports[i].word) > max_side
                /\ \A k \in placed_indices :
                      ~is_upper_cased(placed_words[k].word, reports[i].word))

\* C12 witness: generation ended with a word rejected by add_word, a
\* lower-case word accepted and words placed.
C12_Witness ==
    /\ pc = "done"
    /\ \E i \in 1 .. Len(reports) : reports[i].kind = "too_long"
    /\ \E i \in 1 .. Len(words) : words[i].word = <<"B", "A">>
    /\ placed_words # <<>>

\* the word_dict with this clue has an entry in placed_words
placed_clue(clue) == \E k \in placed_indices : placed_words[k].clue = clue

\* C13: while a word is being tried nothing changes unless it is placed; when
\* its attempts are exhausted the grids and placed_words are as they were, the
\* word is reported and the loop goes on to the next word.
C13_UnplacedLeavesStateIntact ==
    [][ (pc \in {"head", "first", "intersect", "fallback"}) =>
          /\ words' = words
          /\ (idx' = idx => UNCHANGED <<grid, solution_grid, placed_words>>)
          /\ ((pc \in {"first", "fallback"} /\ placed_words' = placed_words)
                => reports' # reports)
          /\ (reports' # reports =>
                /\ UNCHANGED <<grid, solution_grid, placed_words>>
                /\ pc \in {"first", "fallback"}
                /\ trials' = width * height * 50
                /\ reports' = Append(reports, [kind |-> "could_not_place",
                                               word |-> words[idx].word])
                /\ idx' = idx + 1
                /\ pc' = IF idx < Len(words) THEN "head" ELSE "done") ]_vars

\* C13 witness: generation ended with a word reported unplaced and a word
\* after it in processing order placed.
C13_Witness ==
    /\ pc = "done"
    /\ \E i, j \in 1 .. Len(words) :
          /\ i < j
          /\ ~placed_clue(words[i].clue)
          /\ \E r \in 1 .. Len(reports) :
                reports[r] = [kind |-> "could_not_place", word |-> words[i].word]
          /\ placed_clue(words[j].clue)

\* what is left of generate_puzzle: four steps at most for each word not yet
\* finished, counted down by the position inside the current iteration
steps_left ==
    IF pc = "done" THEN 0
    ELSE 4 * (Len(words) - idx)
           + (CASE pc = "head" -> 3
                [] pc = "intersect" -> 2
                [] pc \in {"first", "fallback"} -> 1
                [] OTHER -> 4)

\* C14: generate_puzzle terminates: every step lowers the natural number
\* steps_left, and until the end a step is always possible (a word is at hand
\* and a loop of random trials has a way to end); and no loop of random trials
\* makes more than width * height * 50 trials for a word.
C14_BoundedTermination ==
    /\ [][ (pc # "setup") => (steps_left' < steps_left /\ steps_left' >= 0) ]_vars
    /\ [](pc \in {"head", "intersect"} => idx \in 1 .. Len(words))
    /\ [](pc \in {"first", "fallback"} =>
            /\ idx \in 1 .. Len(words)
            /\ random_loop_outcomes(words[idx].word) # {})
    /\ [](trials <= width * height * 50)

\* C14 witness: generation ended after a fallback loop that used its whole
\* budget of trials.
C14_Witness ==
    /\ pc = "done"
    /\ trials = width * height * 50
    /\ \E r \in 1 .. Len(reports) : reports[r].kind = "could_not_place"

\* the word dictionaries of a list, as a set
entries_of(list) == {list[i] : i \in 1 .. Len(list)}

\* a comes before b in the order of attempts: longer first, and of two words
\* of equal length the one add_word accepted first
attempted_before(a, b) ==
    \/ Len(a.word) > Len(b.word)
    \/ Len(a.word) = Len(b.word) /\ a.clue < b.clue

\* C15: generate_puzzle attempts the words longest first and words of equal
\* length in the order add_word accepted them: the sort keeps exactly the
\* accepted words and leaves them in that order, the loop takes them one by
\* one from the front, each placement is of the word at the loop's position,
\* and so every placed word is at least as long as every word still to be
\* attempted.
C15_ProcessingOrder ==
    /\ [](pc # "setup" =>
            /\ \A i, j \in 1 .. Len(words) :
                  i < j => attempted_before(words[i], words[j])
            /\ \A k, l \in placed_indices :
                  k < l => attempted_before(placed_words[k], placed_words[l])
            /\ \A k \in placed_indices : \A j \in 1 .. Len(words) :
                  j >= idx => Len(placed_words[k].word) >= Len(words[j].word))
    /\ [][ (pc = "setup" /\ pc' # "setup") =>
              /\ Len(words') = Len(words)
              /\ entries_of(words') = entries_of(words)
              /\ idx' = 1 ]_vars
    /\ [][ (pc # "setup") =>
              /\ words' = words
              /\ idx' \in {idx, idx + 1}
              /\ (placed_words' # placed_words =>
                    /\ idx' = idx + 1
                    /\ placed_words'[Len(placed_words')].clue = words[idx].clue
                    /\ placed_words'[Len(placed_words')].word = words[idx].word) ]_vars

\* C15 witness: the longest word was accepted last and is attempted first, two
\* different words of equal length follow in the order of their acceptance,
\* and at least two words were placed.
C15_Witness ==
    /\ pc = "done"
    /\ Len(words) = 3
    /\ words[1].clue = 3
    /\ words[2].clue = 1
    /\ words[3].clue = 2
    /\ Len(words[2].word) = Len(words[3].word)
    /\ words[2].word # words[3].word
    /\ Len(words[1].word) > Len(words[2].word)
    /\ Len(placed_words) >= 2

\* C16: at every moment of generate_puzzle the k-th entry of placed_words
\* (counted from 1; index k - 1 in the program) has number k, so the numbers
\* are unique, run from 1 without a gap and follow the order of placement.
C16_SequenceNumbers ==
    /\ \A k \in placed_indices : placed_words[k].number = k
    /\ \A k, l \in placed_indices :
          placed_words[k].number = placed_words[l].number => k = l
    /\ {placed_words[k].number : k \in placed_indices} = 1 .. Len(placed_words)

\* C16 witness: three words placed, the last of them numbered 3.
C16_Witness ==
    /\ pc = "done"
    /\ Len(placed_words) = 3
    /\ placed_words[3].number = 3

\* C17: placed_words changes only by one entry appended at its end; the
\* entries it had stay where they were, with every field unchanged.
C17_AppendOnly ==
    [][ \/ placed_words' = placed_words
        \/ /\ Len(placed_words') = Len(placed_words) + 1
           /\ \A k \in placed_indices :
                 /\ placed_words'[k].word = placed_words[k].word
                 /\ placed_words'[k].start_x = placed_words[k].start_x
                 /\ placed_words'[k].start_y = placed_words[k].start_y
                 /\ placed_words'[k].direction = placed_words[k].direction
                 /\ placed_words'[k].number = placed_words[k].number
                 /\ placed_words'[k] = placed_words[k] ]_vars

\* C17 witness: two entries are in placed_words while generate_puzzle is about
\* to attempt a further word.
C17_Witness ==
    /\ pc = "head"
    /\ Len(placed_words) = 2

\* a letter, as opposed to the block '#' and the blank ' '
is_letter(c) == c \notin {"#", " "}

\* C18: at every moment of generate_puzzle, for every cell, the player's grid
\* holds ' ' exactly where the solution holds a letter and '#' exactly where
\* the solution holds '#'; the player's grid never holds a letter.
C18_MaskAgreesWithSolution ==
    \A y \in Rows : \A x \in Cols :
        /\ (grid[y][x] = " ") <=> is_letter(solution_grid[y][x])
        /\ (grid[y][x] = "#") <=> (solution_grid[y][x] = "#")
        /\ ~is_letter(grid[y][x])

\* C18 witness: two words placed, one across and one down, with blocked cells
\* left around them.
C18_Witness ==
    /\ Len(placed_words) >= 2
    /\ placed_words[1].direction # placed_words[2].direction
    /\ \E y \in Rows : \E x \in Cols : grid[y][x] = " "
    /\ \E y \in Rows : \E x \in Cols : grid[y][x] = "#"

min_side == IF width <= height THEN width ELSE height

\* C19 as stated: on some grid with width # height some word passes the test
\* of add_word and yet has no eligible orientation in generate_puzzle, which
\* skips it with a report.  Every way this could show is listed: a grid and a
\* word that pass the one test and fail the other, an accepted word of the
\* present state without an orientation, a report of a skipped word.
C19_Original ==
    \/ \E w, h \in 1 .. MaxSide : \E word \in InputWords :
          /\ w # h
          /\ fits_some_side(upper(word), w, h)
          /\ directions_on(upper(word), w, h) = <<>>
    \/ /\ width # height
       /\ \E i \in 1 .. Len(words) : possible_directions(words[i].word) = <<>>
    \/ \E r \in 1 .. Len(reports) : reports[r].kind = "skipping"

\* C19: the test of add_word and the orientations of generate_puzzle agree on
\* every grid, square or not: a word is accepted exactly when it has an
\* eligible orientation.  So every word in words has one, generate_puzzle
\* never reports a word as skipped for having none, and a word that fits
\* neither way is reported by add_word and never enters words.
C19_NeverGeometricallyImpossible ==
    /\ (pc = "setup" /\ words = <<>>) =>
          \A w, h \in 1 .. MaxSide : \A word \in InputWords :
              fits_some_side(upper(word), w, h)
                <=> directions_on(upper(word), w, h) # <<>>
    /\ \A word \in InputWords :
          fits_some_side(upper(word), width, height)
            <=> possible_directions(upper(word)) # <<>>
    /\ \A i \in 1 .. Len(words) : possible_directions(words[i].word) # <<>>
    /\ \A r \in 1 .. Len(reports) :
          /\ reports[r].kind # "skipping"
          /\ reports[r].kind = "too_long" =>
                /\ possible_directions(upper(reports[r].word)) = <<>>
                /\ \A i \in 1 .. Len(words) : words[i].word # upper(reports[r].word)

\* C19 witness: on a grid with width # height a word longer than the shorter
\* side was accepted and placed, a word longer than both sides was reported by
\* add_word, and generate_puzzle ended.
C19_Witness ==
    /\ pc = "done"
    /\ width # height
    /\ \E k \in placed_indices : Len(placed_words[k].word) > min_side
    /\ \E r \in 1 .. Len(reports) : reports[r].kind = "too_long"

\* the rows and columns asked about: those of the grid and one beyond each edge
QueryRows == (-1) .. height
QueryCols == (-1) .. width

\* the entries of placed_words whose span contains the cell, in placement order
entries_through(row, col) ==
    LET contains(p) == <<col, row>> \in span_of(p)
    IN  SelectSeq(placed_words, contains)

\* C20: for every row and column, inside the grid or not, get_word_at_cell
\* returns exactly the entries of placed_words whose span contains the cell,
\* in placement order; for a cell of the grid the result is non-empty exactly
\* when the cell of the player's grid is not '#'.
C20_CellQuery ==
    /\ \A row \in QueryRows : \A col \in QueryCols :
          get_word_at_cell(row, col) = entries_through(row, col)
    /\ \A row \in Rows : \A col \in Cols :
          (get_word_at_cell(row, col) # <<>>) <=> (grid[row][col] # "#")

\* C20 witness: in a generated puzzle one cell has two words through it,
\* returned in placement order, one cell has a single word, one cell of the
\* grid has none, and a cell just past the end of a word has none.
C20_Witness ==
    /\ pc = "done"
    /\ \E row \in Rows : \E col \in Cols :
          /\ Len(get_word_at_cell(row, col)) = 2
          /\ get_word_at_cell(row, col)[1].number < get_word_at_cell(row, col)[2].number
    /\ \E row \in Rows : \E col \in Cols : Len(get_word_at_cell(row, col)) = 1
    /\ \E row \in Rows : \E col \in Cols : get_word_at_cell(row, col) = <<>>
    /\ \E k \in placed_indices :
          /\ placed_words[k].direction = "horizontal"
          /\ get_word_at_cell(placed_words[k].start_y,
                              placed_words[k].start_x + Len(placed_words[k].word)) = <<>>

\* the cell <<row, col>> of the i-th letter (from 0) of a placed word, as the
\* window addresses cells
row_col_of(p, i) == <<cell_of(p, i)[2], cell_of(p, i)[1]>>

\* C21: for every placed word and every cell of its span, get_next_cell_in_word
\* returns the cell of the next letter and None at the last letter,
\* get_previous_cell_in_word returns the cell of the letter before and None at
\* the first letter; a returned cell lies in the word's span.
C21_SteppingInsideWord ==
    \A k \in placed_indices : \A i \in 0 .. (Len(placed_words[k].word) - 1) :
        LET p == placed_words[k]
            here == row_col_of(p, i)
            next == get_next_cell_in_word(here[1], here[2], p)
            previous == get_previous_cell_in_word(here[1], here[2], p)
        IN  /\ next = IF i + 1 < Len(p.word) THEN row_col_of(p, i + 1) ELSE None
            /\ previous = IF i > 0 THEN row_col_of(p, i - 1) ELSE None
            /\ next # None => <<next[2], next[1]>> \in span_of(p)
            /\ previous # None => <<previous[2], previous[1]>> \in span_of(p)

\* C21 witness: a word of three letters down a column is placed; from its
\* middle cell the steps lead to its last and first cells, and there they end.
C21_Witness ==
    /\ pc = "done"
    /\ \E k \in placed_indices :
          LET p == placed_words[k]
          IN  /\ p.direction = "vertical"
              /\ Len(p.word) = 3
              /\ get_next_cell_in_word(p.start_y + 1, p.start_x, p)
                    = <<p.start_y + 2, p.start_x>>
              /\ get_next_cell_in_word(p.start_y + 2, p.start_x, p) = None
              /\ get_previous_cell_in_word(p.start_y + 1, p.start_x, p)
                    = <<p.start_y, p.start_x>>
              /\ get_previous_cell_in_word(p.start_y, p.start_x, p) = None
    /\ \E k \in placed_indices : placed_words[k].direction = "horizontal"

\* the entry _place_word appends for a candidate of the intersection stage
entry_at(word_dict, candidate) ==
    [word |-> word_dict.word, clue |-> word_dict.clue,
     start_x |-> candidate.start_x, start_y |-> candidate.start_y,
     direction |-> candidate.direction, number |-> Len(placed_words) + 1]

\* C23: in the intersection stage every candidate of the list passes
\* _can_place_word again, so whichever candidate the shuffle puts first is
\* the one committed; when the list is not empty the word is placed at one
\* of its candidates with no random trial made and the fallback loop is not
\* entered; the fallback loop is entered only with an empty list.
C23_IntersectionPriority ==
    /\ [](pc = "intersect" =>
            LET word == words[idx].word
                candidates == possible_placements(word)
            IN  \A k \in 1 .. Len(candidates) :
                    can_place_word(word, candidates[k].start_x,
                                   candidates[k].start_y, candidates[k].direction))
    /\ [][ (pc = "intersect") =>
              LET candidates == possible_placements(words[idx].word)
              IN  /\ candidates # <<>> =>
                        /\ pc' # "fallback"
                        /\ trials' = 0
                        /\ \E k \in 1 .. Len(candidates) :
                              placed_words' = Append(placed_words,
                                                     entry_at(words[idx], candidates[k]))
                  /\ candidates = <<>> =>
                        /\ pc' = "fallback"
                        /\ placed_words' = placed_words ]_vars
    /\ [](pc = "fallback" => possible_placements(words[idx].word) = <<>>)

\* C23 witness: generate_puzzle ended with its last word committed in the
\* intersection stage, crossing an earlier word, with no random trial made
\* for it.
C23_Witness ==
    /\ pc = "done"
    /\ Len(placed_words) >= 2
    /\ trials = 0
    /\ placed_words[Len(placed_words)].clue = words[Len(words)].clue
    /\ placed_words[Len(placed_words)].direction # placed_words[1].direction

\* no two entries of words have the same text
distinct_texts ==
    \A i, j \in 1 .. Len(words) : i # j => words[i].word # words[j].word

\* C24: when the words have pairwise different texts the fallback loop of
\* random trials never places a word, and a word tried after the first
\* placement is placed exactly when the intersection stage has a candidate
\* that passes _can_place_word.
C24_FallbackNeverRescues ==
    /\ [][ (pc = "fallback" /\ distinct_texts) =>
              /\ placed_words' = placed_words
              /\ trials' = width * height * 50
              /\ Len(reports') = Len(reports) + 1 ]_vars
    /\ [][ (pc = "intersect" /\ distinct_texts) =>
              ((placed_words' # placed_words)
                 <=> (possible_placements(words[idx].word) # <<>>)) ]_vars
    /\ [](pc = "fallback" /\ distinct_texts =>
            \A o \in random_loop_outcomes(words[idx].word) : ~o.placed)

\* C24 witness: the texts are pairwise different, a word that shares a letter
\* with a placed word went through the whole fallback loop and was reported
\* as not placed.
C24_Witness ==
    /\ pc = "done"
    /\ distinct_texts
    /\ Len(words) >= 2
    /\ placed_words # <<>>
    /\ trials = width * height * 50
    /\ \E r \in 1 .. Len(reports) :
          /\ reports[r].kind = "could_not_place"
          /\ \E k \in placed_indices :
                \E a \in 1 .. Len(reports[r].word), b \in 1 .. Len(placed_words[k].word) :
                    reports[r].word[a] = placed_words[k].word[b]

\* C25: after generate_puzzle any two different entries of placed_words whose
\* spans share a cell have opposite orientations; two words of the same
\* orientation never overlap.
C25_CrossingsPerpendicular ==
    pc = "done" =>
        \A k, l \in placed_indices :
            (k # l /\ span_of(placed_words[k]) \cap span_of(placed_words[l]) # {})
              => placed_words[k].direction # placed_words[l].direction

\* C26: when words is not empty the first word in processing order, a longest
\* one, is placed by the very first random trial of the first loop; after
\* generate_puzzle placed_words is not empty and its first entry is that word.
C26_FirstWordSucceeds ==
    /\ [](pc = "first" =>
            /\ idx = 1
            /\ placed_words = <<>>
            /\ \A o \in random_loop_outcomes(words[1].word) :
                  o.placed /\ o.trials = 1)
    /\ [][ (pc = "first") =>
              /\ trials' = 1
              /\ Len(placed_words') = 1
              /\ placed_words'[1].word = words[1].word
              /\ placed_words'[1].clue = words[1].clue
              /\ reports' = reports ]_vars
    /\ []((pc = "done" /\ words # <<>>) =>
            /\ placed_words # <<>>
            /\ placed_words[1].word = words[1].word
            /\ placed_words[1].clue = words[1].clue
            /\ \A i \in 1 .. Len(words) :
                  Len(words[i].word) <= Len(placed_words[1].word))

\* C26 witness: the first loop has just placed the first of several words on
\* its first trial, at a start other than the top left corner.
C26_Witness ==
    /\ pc = "head"
    /\ idx = 2
    /\ trials = 1
    /\ Len(words) >= 2
    /\ Len(placed_words) = 1
    /\ placed_words[1].clue = words[1].clue
    /\ placed_words[1].start_x + placed_words[1].start_y > 0

\* the solution holds a letter at (x, y); no letter outside the grid
letter_at(x, y) == cell_in_grid(x, y) /\ solution_grid[y][x] # "#"

\* the cells from (x, y) on, n of them, along a direction
cells_along(x, y, n, direction) ==
    IF direction = "horizontal"
    THEN {<<x + i, y>> : i \in 0 .. (n - 1)}
    ELSE {<<x, y + i>> : i \in 0 .. (n - 1)}

\* n cells from (x, y) on along a direction are a maximal run of letters:
\* all of them hold letters, the cell before and the cell after do not
maximal_run(x, y, n, direction) ==
    /\ \A c \in cells_along(x, y, n, direction) : letter_at(c[1], c[2])
    /\ IF direction = "horizontal"
       THEN ~letter_at(x - 1, y) /\ ~letter_at(x + n, y)
       ELSE ~letter_at(x, y - 1) /\ ~letter_at(x, y + n)

\* C27: at every moment of generate_puzzle every maximal run of two or more
\* letters along a row of the solution grid is exactly the span of a
\* horizontal entry of placed_words, and every maximal run of two or more
\* letters down a column is exactly the span of a vertical entry.
C27_RunsAreWords ==
    \A x \in Cols, y \in Rows, n \in 2 .. max_side,
       direction \in {"horizontal", "vertical"} :
        maximal_run(x, y, n, direction) =>
            \E k \in placed_indices :
                /\ placed_words[k].direction = direction
                /\ span_of(placed_words[k]) = cells_along(x, y, n, direction)

\* C27 witness: three words are placed and the grid holds a run of three
\* letters along a row and a run of two or more down a column.
C27_Witness ==
    /\ pc = "done"
    /\ Len(placed_words) = 3
    /\ \E x \in Cols, y \in Rows : maximal_run(x, y, 3, "horizontal")
    /\ \E x \in Cols, y \in Rows, n \in 2 .. 3 : maximal_run(x, y, n, "vertical")

\* C28: a cell of the solution grid only ever changes from '#' to a letter and
\* a cell that holds a letter never changes again; a call of _place_word
\* changes no cell outside the span of the word it places.
C28_SolutionWriteOnce ==
    [][ /\ \A y \in Rows : \A x \in Cols :
              /\ solution_grid[y][x] # "#" => solution_grid'[y][x] = solution_grid[y][x]
              /\ solution_grid'[y][x] # solution_grid[y][x] =>
                    /\ solution_grid[y][x] = "#"
                    /\ is_letter(solution_grid'[y][x])
                    /\ Len(placed_words') = Len(placed_words) + 1
                    /\ <<x, y>> \in span_of(placed_words'[Len(placed_words')])
        /\ placed_words' = placed_words => solution_grid' = solution_grid ]_vars

\* C28 witness: a word was placed across an earlier one, through a cell that
\* already held its letter, and the earlier word still reads as placed.
C28_Witness ==
    /\ Len(placed_words) >= 2
    /\ span_of(placed_words[1]) \cap span_of(placed_words[2]) # {}
    /\ placed_words[1].direction # placed_words[2].direction
    /\ \A i \in 0 .. (Len(placed_words[1].word) - 1) :
          solution_grid[cell_of(placed_words[1], i)[2]][cell_of(placed_words[1], i)[1]]
            = placed_words[1].word[i + 1]

\* the reports generate_puzzle makes of a word it did not place
failure_reports ==
    {r \in 1 .. Len(reports) : reports[r].kind \in {"could_not_place", "skipping"}}

\* the words generate_puzzle has finished with
finished_words == IF pc = "setup" THEN 0 ELSE idx - 1

\* C29: every entry of words ends in exactly one of two ways, one entry
\* appended to placed_words or one failure report and nothing appended: the
\* step that finishes a word makes exactly one of the two, no other step
\* makes either, and at every moment the placed words and the failure
\* reports together number the words finished, all of them after the run.
C29_EveryWordAccounted ==
    /\ [](Len(placed_words) + Cardinality(failure_reports) = finished_words)
    /\ []((pc = "done") => finished_words = Len(words))
    /\ []((pc = "done") =>
            \A i \in 1 .. Len(words) :
                Cardinality({k \in placed_indices : placed_words[k].clue = words[i].clue})
                  <= 1)
    /\ [][ (pc # "setup") =>
              /\ idx' = idx =>
                    placed_words' = placed_words /\ reports' = reports
              /\ idx' # idx =>
                    \/ /\ placed_words' = Append(placed_words,
                                                 placed_words'[Len(placed_words')])
                       /\ placed_words'[Len(placed_words')].clue = words[idx].clue
                       /\ reports' = reports
                    \/ /\ placed_words' = placed_words
                       /\ Len(reports') = Len(reports) + 1
                       /\ reports'[Len(reports')].word = words[idx].word
                       /\ reports'[Len(reports')].kind
                            \in {"could_not_place", "skipping"} ]_vars

\* C29 witness: of three words two were placed and one was reported.
C29_Witness ==
    /\ pc = "done"
    /\ Len(words) = 3
    /\ Len(placed_words) = 2
    /\ Cardinality(failure_reports) = 1

------------------------------------------------------------------------------
(* Direct calls of _can_place_word: any grid content, placed_words empty or *)
(* not, any start from -1 to MaxStart.  probe records the arguments and the *)
(* returned value of the latest call.                                       *)

ValidatorDims == {<<3, 2>>, <<2, 3>>}

ProbeWords == { <<"A">>, <<"B">>, <<"A", "B">>, <<"B", "A">>,
                <<"A", "A">>, <<"A", "B", "A">> }

ProbeStarts == (-1) .. MaxStart

SomeEntry ==
    [word |-> <<"A">>, clue |-> 0, start_x |-> 0, start_y |-> 0,
     direction |-> "horizontal", number |-> 1]

\* self.grid of a solution grid: " " over a letter, "#" elsewhere
mask_of(solution, w, h) ==
    [y \in 0 .. (h - 1) |-> [x \in 0 .. (w - 1) |->
        IF solution[y][x] = "#" THEN "#" ELSE " "]]

InitValidator ==
    /\ \E d \in ValidatorDims :
          /\ width = d[1]
          /\ height = d[2]
          /\ solution_grid \in [0 .. (d[2] - 1) -> [0 .. (d[1] - 1) -> {"#", "A", "B"}]]
          /\ grid = mask_of(solution_grid, d[1], d[2])
    /\ words = <<>>
    /\ placed_words \in {<<>>, <<SomeEntry>>}
    /\ pc = "call"
    /\ idx = 0
    /\ trials = 0
    /\ reports = <<>>
    /\ probe = NoProbe
    /\ NoWindow

\* mutant of validator_frame: the validator marks the start cell as visited
validator_frame_marking ==
    /\ solution_grid' = [solution_grid EXCEPT ![0][0] = "A"]
    /\ UNCHANGED <<width, height, grid, words, placed_words>>

\* lines 47-152 assign to no attribute of self
validator_frame ==
    UNCHANGED <<width, height, grid, solution_grid, words, placed_words>>

CanPlaceCall ==
    /\ pc = "call"
    /\ probe.calls = 0
    /\ \E word \in ProbeWords, start_x \in ProbeStarts, start_y \in ProbeStarts,
          direction \in {"horizontal", "vertical"} :
          probe' = [called |-> TRUE, calls |-> 1, word |-> word,
                    start_x |-> start_x, start_y |-> start_y,
                    direction |-> direction,
                    result |-> can_place_word(word, start_x, start_y, direction)]
    /\ validator_frame
    /\ UNCHANGED <<pc, idx, trials, reports, gui>>

\* the same call once more
CanPlaceAgain ==
    /\ pc = "call"
    /\ probe.calls = 1
    /\ probe' = [probe EXCEPT
                   !.calls = 2,
                   !.result = can_place_word(probe.word, probe.start_x,
                                             probe.start_y, probe.direction)]
    /\ validator_frame
    /\ UNCHANGED <<pc, idx, trials, reports, gui>>

NextValidator ==
    \/ CanPlaceCall
    \/ CanPlaceAgain

SpecValidator == InitValidator /\ [][NextValidator]_vars

\* the solution cell at (x, y), "#" outside the grid
solution_at(x, y) ==
    IF cell_in_grid(x, y) THEN solution_grid[y][x] ELSE "#"

\* the conditions of C7 on one call
can_place_reference(word, start_x, start_y, direction) ==
    LET p == [word |-> word, start_x |-> start_x, start_y |-> start_y,
              direction |-> direction]
        offsets == 0 .. (Len(word) - 1)
        along == IF direction = "horizontal" THEN <<1, 0>> ELSE <<0, 1>>
        across == IF direction = "horizontal" THEN <<0, 1>> ELSE <<1, 0>>
        before == cell_of(p, -1)
        after == cell_of(p, Len(word))
    IN  /\ start_x >= 0
        /\ start_y >= 0
        /\ \A i \in offsets : cell_in_grid(cell_of(p, i)[1], cell_of(p, i)[2])
        /\ \A i \in offsets :
              LET c == cell_of(p, i)
              IN  IF solution_grid[c[2]][c[1]] # "#"
                  THEN solution_grid[c[2]][c[1]] = word[i + 1]
                  ELSE /\ solution_at(c[1] - across[1], c[2] - across[2]) = "#"
                       /\ solution_at(c[1] + across[1], c[2] + across[2]) = "#"
        /\ solution_at(before[1], before[2]) = "#"
        /\ solution_at(after[1], after[2]) = "#"
        /\ \/ placed_words = <<>>
           \/ \E i \in offsets :
                 solution_grid[cell_of(p, i)[2]][cell_of(p, i)[1]] # "#"

\* C7: _can_place_word returns True exactly when the start is non-negative,
\* the span is inside the grid, letters on the span match, empty span cells
\* have empty perpendicular neighbours, the cells before and after the span
\* are empty, and the word is the first or crosses a letter.
C7_ValidatorReference ==
    probe.called =>
        probe.result = can_place_reference(probe.word, probe.start_x,
                                           probe.start_y, probe.direction)

\* C7 witness: with words already placed, a call is accepted for a word that
\* covers both a letter and an empty cell.
C7_Witness ==
    /\ probe.called
    /\ probe.result
    /\ placed_words # <<>>
    /\ \E c, d \in span_of(probe) :
          solution_grid[c[2]][c[1]] # "#" /\ solution_grid[d[2]][d[1]] = "#"

\* C11: on an empty grid of a fresh puzzle a horizontal word as long as the
\* grid is wide is accepted at start_x = 0 in any row and rejected at
\* start_x = 1; a vertical word as long as the grid is high is accepted at
\* start_y = 0 in any column and rejected at start_y = 1.
C11_BoundaryExactness ==
    (/\ probe.called
     /\ placed_words = <<>>
     /\ solution_grid = EmptyGrid(width, height)) =>
        /\ (/\ probe.direction = "horizontal"
            /\ Len(probe.word) = width
            /\ probe.start_y \in Rows) =>
               /\ (probe.start_x = 0 => probe.result)
               /\ (probe.start_x = 1 => ~probe.result)
        /\ (/\ probe.direction = "vertical"
            /\ Len(probe.word) = height
            /\ probe.start_x \in Cols) =>
               /\ (probe.start_y = 0 => probe.result)
               /\ (probe.start_y = 1 => ~probe.result)

\* C11 witness: a word as long as the grid is wide was accepted at start_x = 0
\* in the last row of an empty grid.
C11_Witness ==
    /\ probe.called
    /\ placed_words = <<>>
    /\ solution_grid = EmptyGrid(width, height)
    /\ probe.direction = "horizontal"
    /\ Len(probe.word) = width
    /\ probe.start_x = 0
    /\ probe.start_y = height - 1
    /\ probe.result

------------------------------------------------------------------------------
(* The CAT/CAR scenario: a 10x10 puzzle after add_word("CAT", ...) and  *)
(* add_word("CAR", ...), then one run of generate_puzzle.                *)

CAT == <<"C", "A", "T">>
CAR == <<"C", "A", "R">>

InitCatCar ==
    /\ width = 10
    /\ height = 10
    /\ grid = EmptyGrid(10, 10)
    /\ solution_grid = EmptyGrid(10, 10)
    /\ words = <<[word |-> CAT, clue |-> 1], [word |-> CAR, clue |-> 2]>>
    /\ placed_words = <<>>
    /\ pc = "setup"
    /\ idx = 0
    /\ trials = 0
    /\ reports = <<>>
    /\ probe = NoProbe
    /\ NoWindow

NextCatCar ==
    \/ GenerateStart
    \/ LoopHead
    \/ FirstWordLoop
    \/ IntersectionStage
    \/ FallbackLoop

SpecCatCar == InitCatCar /\ [][NextCatCar]_vars

\* the first placed word lies along the last row or down the last column
first_on_far_edge ==
    \/ (placed_words[1].direction = "horizontal"
          /\ placed_words[1].start_y = height - 1)
    \/ (placed_words[1].direction = "vertical"
          /\ placed_words[1].start_x = width - 1)

\* C9 as stated: whatever the random choices, both words end up placed and
\* their spans share a cell.
C9_Original ==
    pc = "done" =>
        /\ Len(placed_words) = 2
        /\ span_of(placed_words[1]) \cap span_of(placed_words[2]) # {}

\* C9 amended: CAT is always placed; CAR is placed, sharing a cell with CAT,
\* exactly when CAT lies neither along the last row nor down the last column,
\* and is reported unplaced otherwise.
C9_CatCar ==
    pc = "done" =>
        /\ Len(placed_words) >= 1
        /\ placed_words[1].word = CAT
        /\ IF first_on_far_edge
           THEN /\ Len(placed_words) = 1
                /\ reports = <<[kind |-> "could_not_place", word |-> CAR]>>
           ELSE /\ Len(placed_words) = 2
                /\ placed_words[2].word = CAR
                /\ span_of(placed_words[1]) \cap span_of(placed_words[2]) # {}
                /\ reports = <<>>

\* C9 witness: generation ended with CAT and CAR crossing.
C9_Witness ==
    /\ pc = "done"
    /\ Len(placed_words) = 2
    /\ span_of(placed_words[1]) \cap span_of(placed_words[2]) # {}

------------------------------------------------------------------------------
(* CrosswordGUI, lines 298-709: the window on a generated puzzle.  A cell is *)
(* <<row, col>>; an entry of user_grid is "" or the string typed.  The keys  *)
(* are named as pygame names them, K_OTHER standing for any other key.       *)

\* __init__, line 303: the default cell_size and margin, in pixels
cell_size == 35
margin == 20

\* lines 386-400
get_cell_at_pos(x, y) ==
    IF x < margin \/ y < margin THEN None
    ELSE LET col == (x - margin) \div cell_size
             row == (y - margin) \div cell_size
         IN  IF 0 <= col /\ col < width /\ 0 <= row /\ row < height
             THEN IF grid[row][col] # "#" THEN <<row, col>> ELSE None
             ELSE None

\* the entries of a list, as a set
elements_of(list) == {list[i] : i \in 1 .. Len(list)}

\* list.index(item), 0-based: the first position of an item the list holds
index_of(list, item) ==
    (CHOOSE i \in 1 .. Len(list) :
        list[i] = item /\ \A j \in 1 .. (i - 1) : list[j] # item) - 1

\* lines 402-421
select_cell(row, col) ==
    LET words_at_cell == get_word_at_cell(row, col)
    IN  /\ selected_cell' = <<row, col>>
        /\ IF words_at_cell # <<>>
           THEN IF selected_word # NoWord /\ selected_word \in elements_of(words_at_cell)
                THEN UNCHANGED <<selected_word, selected_direction>>
                ELSE /\ selected_word' = words_at_cell[1]
                     /\ selected_direction' = words_at_cell[1].direction
           ELSE /\ selected_word' = NoWord
                /\ selected_direction' = "none"

\* str.isalpha() on the characters of the model
isalpha(unicode_char) == upper_char(unicode_char) \in {"A", "B", "X", "Y"}

\* the cell a step leads to: the cell found, or the current one where the
\* word ends ('if next_cell:' / 'if prev_cell:')
step_to(cell) == IF cell # None THEN cell ELSE selected_cell

\* mutant of handle_key_input_step: the arrow keys and the steps after a key
\* move the selection by one cell whether or not the word goes on there
step_unbounded(forward) ==
    LET row == selected_cell[1]
        col == selected_cell[2]
        d == IF forward THEN 1 ELSE -1
    IN  IF selected_word = NoWord THEN selected_cell
        ELSE IF selected_word.direction = "horizontal"
             THEN <<row, col + d>> ELSE <<row + d, col>>

\* 'if self.selected_word: cell = self.get_..._cell_in_word(row, col,
\* self.selected_word); if cell: self.selected_cell = cell', as in lines
\* 608-611, 619-622 and 663-668
handle_key_input_step(forward) ==
    LET row == selected_cell[1]
        col == selected_cell[2]
    IN  IF selected_word = NoWord THEN selected_cell
        ELSE IF forward
             THEN step_to(get_next_cell_in_word(row, col, selected_word))
             ELSE step_to(get_previous_cell_in_word(row, col, selected_word))

\* lines 596-669
handle_key_input(key, unicode_char) ==
    IF selected_cell = None
    THEN UNCHANGED <<user_grid, selected_cell, selected_word, selected_direction>>
    ELSE LET row == selected_cell[1]
             col == selected_cell[2]
             words_at_cell == get_word_at_cell(row, col)
             current_index == IF selected_word \in elements_of(words_at_cell)
                              THEN index_of(words_at_cell, selected_word)
                              ELSE -1
             next_index == (current_index + 1) % Len(words_at_cell)
             along(direction) ==
                 selected_word # NoWord /\ selected_word.direction = direction
         IN  CASE key = "K_BACKSPACE" ->
                    /\ user_grid' = [user_grid EXCEPT ![row][col] = ""]
                    /\ selected_cell' = handle_key_input_step(FALSE)
                    /\ UNCHANGED <<selected_word, selected_direction>>
               [] key = "K_DELETE" ->
                    /\ user_grid' = [user_grid EXCEPT ![row][col] = ""]
                    /\ UNCHANGED <<selected_cell, selected_word, selected_direction>>
               [] key = "K_SPACE" ->
                    /\ selected_cell' = handle_key_input_step(TRUE)
                    /\ UNCHANGED <<user_grid, selected_word, selected_direction>>
               [] key = "K_TAB" ->
                    /\ IF Len(words_at_cell) > 1
                       THEN /\ selected_word' = words_at_cell[next_index + 1]
                            /\ selected_direction' = words_at_cell[next_index + 1].direction
                       ELSE UNCHANGED <<selected_word, selected_direction>>
                    /\ UNCHANGED <<user_grid, selected_cell>>
               [] key = "K_LEFT" ->
                    /\ selected_cell' = IF along("horizontal")
                                        THEN handle_key_input_step(FALSE)
                                        ELSE selected_cell
                    /\ UNCHANGED <<user_grid, selected_word, selected_direction>>
               [] key = "K_RIGHT" ->
                    /\ selected_cell' = IF along("horizontal")
                                        THEN handle_key_input_step(TRUE)
                                        ELSE selected_cell
                    /\ UNCHANGED <<user_grid, selected_word, selected_direction>>
               [] key = "K_UP" ->
                    /\ selected_cell' = IF along("vertical")
                                        THEN handle_key_input_step(FALSE)
                                        ELSE selected_cell
                    /\ UNCHANGED <<user_grid, selected_word, selected_direction>>
               [] key = "K_DOWN" ->
                    /\ selected_cell' = IF along("vertical")
                                        THEN handle_key_input_step(TRUE)
                                        ELSE selected_cell
                    /\ UNCHANGED <<user_grid, selected_word, selected_direction>>
               [] OTHER ->
                    IF unicode_char # "" /\ isalpha(unicode_char)
                    THEN /\ user_grid' = [user_grid EXCEPT
                                            ![row][col] = upper_char(unicode_char)]
                         /\ selected_cell' = handle_key_input_step(TRUE)
                         /\ UNCHANGED <<selected_word, selected_direction>>
                    ELSE UNCHANGED <<user_grid, selected_cell, selected_word,
                                     selected_direction>>

\* mutant of cell_completed: any entry completes a cell
cell_completed_by_any_entry(row, col) ==
    IF grid[row][col] # "#"
    THEN user_grid[row][col] # ""
    ELSE TRUE

\* lines 676-681, for one cell: FALSE where the source returns False
cell_completed(row, col) ==
    IF grid[row][col] # "#"
    THEN LET user_char == user_grid[row][col]
             solution_char == solution_grid[row][col]
         IN  ~(user_char = "" \/ upper_char(user_char) # solution_char)
    ELSE TRUE

\* lines 675-682: the loops over the rows and the columns, from (row, col) on
RECURSIVE check_completion_from(_, _)
check_completion_from(row, col) ==
    IF row >= height THEN TRUE
    ELSE IF col >= width THEN check_completion_from(row + 1, 0)
    ELSE IF ~cell_completed(row, col) THEN FALSE
    ELSE check_completion_from(row, col + 1)

\* lines 671-682
check_completion == check_completion_from(0, 0)

------------------------------------------------------------------------------
(* The window specification: a puzzle after its add_word calls, one run of  *)
(* generate_puzzle, then the window with any clicks and key presses.        *)

\* the puzzles played: width, height and the words add_word was given
PlayedPuzzles ==
    { [width |-> 3, height |-> 2,
       words |-> << <<"A", "B", "A">>, <<"a", "b">> >>],
      [width |-> 3, height |-> 3,
       words |-> << <<"A", "B", "A">>, <<"a", "b">>, <<"B", "A">> >>],
      [width |-> 2, height |-> 1,
       words |-> << <<"A", "B">>, <<"a", "b">> >>] }

\* the keys pressed and the characters they carry
Keys == {"K_BACKSPACE", "K_DELETE", "K_SPACE", "K_TAB", "K_LEFT", "K_RIGHT",
         "K_UP", "K_DOWN", "K_OTHER"}
KeyChars == {"a", "B", "1", ""}

\* the mouse coordinates clicked: left of the grid, and the first and the
\* last pixel of every column or row up to one past the grid
MouseCoordinates ==
    {margin - 1}
      \cup {margin + k * cell_size : k \in 0 .. max_side}
      \cup {margin + k * cell_size + cell_size - 1 : k \in 0 .. max_side}

InitWindow ==
    /\ \E played \in PlayedPuzzles :
          /\ width = played.width
          /\ height = played.height
          /\ grid = EmptyGrid(played.width, played.height)
          /\ solution_grid = EmptyGrid(played.width, played.height)
          /\ \A i \in 1 .. Len(played.words) :
                fits_some_side(upper(played.words[i]), played.width, played.height)
          /\ words = [i \in 1 .. Len(played.words) |->
                         [word |-> upper(played.words[i]), clue |-> i]]
    /\ placed_words = <<>>
    /\ pc = "setup"
    /\ idx = 0
    /\ trials = 0
    /\ reports = <<>>
    /\ probe = NoProbe
    /\ NoWindow

\* CrosswordGUI.__init__, lines 303-348
OpenWindow ==
    /\ pc = "done"
    /\ pc' = "window"
    /\ user_grid' = [row \in Rows |-> [col \in Cols |-> ""]]
    /\ selected_cell' = None
    /\ selected_word' = NoWord
    /\ selected_direction' = "none"
    /\ UNCHANGED <<width, height, grid, solution_grid, words, placed_words,
                   idx, trials, reports, probe, completion>>

\* run, lines 695-700: a left click
MouseButtonDown ==
    /\ pc = "window"
    /\ \E x, y \in MouseCoordinates :
          LET cell == get_cell_at_pos(x, y)
          IN  IF cell # None
              THEN select_cell(cell[1], cell[2])
              ELSE UNCHANGED <<selected_cell, selected_word, selected_direction>>
    /\ UNCHANGED <<width, height, grid, solution_grid, words, placed_words,
                   pc, idx, trials, reports, probe, user_grid, completion>>

\* run, lines 702-703: a key press, up to the return of handle_key_input
KeyDown ==
    /\ pc = "window"
    /\ \E key \in Keys, unicode_char \in KeyChars :
          handle_key_input(key, unicode_char)
    /\ pc' = "check"
    /\ UNCHANGED <<width, height, grid, solution_grid, words, placed_words,
                   idx, trials, reports, probe, completion>>

\* lines 671-682 assign to no attribute of self or of self.puzzle
check_completion_frame ==
    UNCHANGED <<width, height, grid, solution_grid, words, placed_words,
                user_grid, selected_cell, selected_word, selected_direction>>

\* run, lines 705-707: check_completion after the key press
CheckCompletion ==
    /\ pc = "check"
    /\ completion' = [called |-> TRUE, result |-> check_completion]
    /\ check_completion_frame
    /\ pc' = "window"
    /\ UNCHANGED <<idx, trials, reports, probe>>

NextWindow ==
    \/ GenerateStart
    \/ LoopHead
    \/ FirstWordLoop
    \/ IntersectionStage
    \/ FallbackLoop
    \/ OpenWindow
    \/ MouseButtonDown
    \/ KeyDown
    \/ CheckCompletion

SpecWindow == InitWindow /\ [][NextWindow]_vars

------------------------------------------------------------------------------
(* Properties of the window specification *)

\* every playable cell holds an entry whose upper-case form is the letter of
\* the solution
all_cells_solved ==
    \A row \in Rows : \A col \in Cols :
        grid[row][col] # "#" =>
            /\ user_grid[row][col] # ""
            /\ upper_char(user_grid[row][col]) = solution_grid[row][col]

\* C22: check_completion returns True exactly when every playable cell has a
\* non-empty entry whose upper-case form equals the cell's letter in
\* solution_grid, and it changes neither the puzzle nor the user grid nor the
\* selection.
C22_CompletionCheck ==
    /\ [](pc \in {"window", "check"} => (check_completion <=> all_cells_solved))
    /\ []((pc = "window" /\ completion.called) =>
            (completion.result <=> all_cells_solved))
    /\ [][ (pc = "check") =>
              /\ completion'.called
              /\ completion'.result = all_cells_solved
              /\ UNCHANGED <<width, height, grid, solution_grid, words,
                             placed_words, user_grid, selected_cell,
                             selected_word, selected_direction>> ]_vars

\* C22 witness: on a puzzle of three placed words every playable cell was
\* filled with its letter and check_completion answered True.
C22_Witness ==
    /\ pc = "window"
    /\ Len(placed_words) = 3
    /\ completion.called
    /\ completion.result
    /\ \E row \in Rows : \E col \in Cols : user_grid[row][col] = "B"

\* C30: whenever a cell is selected it is a playable cell of the grid,
\* selected_word is an entry of placed_words whose span contains it and
\* selected_direction is that word's direction; clicks and key presses leave
\* the puzzle's grid, solution_grid and placed_words as they are, and a click
\* leaves user_grid as it is.
C30_SelectionInsideWord ==
    /\ [](pc \in {"window", "check"} =>
            (selected_cell # None =>
                /\ selected_cell[1] \in Rows
                /\ selected_cell[2] \in Cols
                /\ grid[selected_cell[1]][selected_cell[2]] # "#"
                /\ selected_word \in elements_of(placed_words)
                /\ <<selected_cell[2], selected_cell[1]>> \in span_of(selected_word)
                /\ selected_direction = selected_word.direction))
    /\ [](pc \in {"window", "check"} =>
            (selected_cell = None =>
                selected_word = NoWord /\ selected_direction = "none"))
    /\ [][ (pc \in {"window", "check"}) =>
              /\ UNCHANGED <<width, height, grid, solution_grid, words, placed_words>>
              /\ (pc' = pc => user_grid' = user_grid) ]_vars

\* C30 witness: after clicks and key presses the selection stands on the last
\* cell of a word other than the first placed, reached by stepping along it,
\* with letters typed into the user grid, and the cell is one where two words
\* cross or lie over each other.
C30_Witness ==
    /\ pc = "window"
    /\ selected_cell # None
    /\ selected_word \in elements_of(placed_words)
    /\ selected_word.number > 1
    /\ <<selected_cell[2], selected_cell[1]>>
         = cell_of(selected_word, Len(selected_word.word) - 1)
    /\ Len(get_word_at_cell(selected_cell[1], selected_cell[2])) = 2
    /\ \E row \in Rows : \E col \in Cols : user_grid[row][col] # ""

====
